---- MODULE Spec2Model ----
(***************************************************************************)
(* A state-machine model of the browser-side modules of the ACTA website.  *)
(*                                                                         *)
(* Consent manager (src/assets/js/consent.js): the consent record, its     *)
(* persisted copies (localStorage and cookie), the gated script            *)
(* placeholders of the page, the banner and the modal with their hide      *)
(* timers, and the public window.ACTAConsent object.                       *)
(*                                                                         *)
(* JavaScript values are modelled by strings: "true" and "false" are the   *)
(* booleans, "undefined" is undefined, "yes" is a non-empty string (a      *)
(* truthy value that is not the boolean true).  "absent" marks a key an    *)
(* object does not have.                                                   *)
(*                                                                         *)
(* Contact form (src/assets/js/contact.js): the field values, the clock,   *)
(* the form start time, the submission history in memory and in            *)
(* localStorage, the guard flag, the insert call in flight and the         *)
(* success and error panels.  A string the code inspects is a sequence of  *)
(* one-character strings; an error message is the set of the marker        *)
(* substrings it contains.                                                 *)
(*                                                                         *)
(* Header (src/assets/js/header.js): the scroll offset and the window      *)
(* width, the header's data-state attribute, the mobile menu, and the two  *)
(* throttles of the scroll and resize listeners.  The page holds the menu  *)
(* button, the menu and the desktop navigation.                            *)
(*                                                                         *)
(* Scroll animations (src/assets/js/animate.js): the reduced-motion        *)
(* preference, the document's readyState, the DOMContentLoaded listener    *)
(* the module adds, the intersection observer and the page's fade-up       *)
(* elements.                                                               *)
(*                                                                         *)
(* Input debounce of the contact form (contact.js, addEventListeners and   *)
(* debounce): the browser's pending timers set by the input listeners and  *)
(* the shared validationTimeout.                                           *)
(*                                                                         *)
(* Each module has its own specification; the variables of the other       *)
(* modules rest at one value in it.                                        *)
(***************************************************************************)
EXTENDS Integers, Sequences, FiniteSets

VARIABLES
    phase,                  \* "loading": init() not yet run; "ready": init() ran to its end;
                            \* "disabled": init() returned at the missing-element check
    present,                \* which of the three required elements the page holds
    prefersReducedMotion,   \* matchMedia(...).matches, read once at module load
    currentConsent,         \* the in-memory record
    stored,                 \* localStorage['acta_consent']
    cookie,                 \* the acta_consent cookie
    analyticsCheckbox,      \* "absent", "checked" or "unchecked"
    marketingCheckbox,
    scripts,                \* the page's script elements that are or were gated
    bannerHidden,           \* the banner carries the class 'hidden'
    modalHidden,
    bannerTimers,           \* pending setTimeout callbacks of hideBanner
    modalTimers,            \* pending setTimeout callbacks of hideModal
    \* contact.js
    fields,                 \* the values of the form's fields
    now,                    \* Date.now(), in milliseconds
    startTime,              \* contactForm.dataset.startTime
    submissionHistory,      \* the in-memory array of timestamps
    storedHistory,          \* localStorage['acta_submission_history']
    isSubmitting,           \* the guard flag
    inFlight,               \* insert calls awaiting their result
    supabaseClient,         \* TRUE once createClient has returned a client
    shown,                  \* which panel is on screen: "none", "success" or "error"
    errorText,              \* the text of the error panel's span
    \* header.js
    headerPhase,            \* "loading": init() not yet run; "ready": init() ran
    scrollY,                \* window.scrollY
    innerWidth,             \* window.innerWidth
    isScrolled,
    lastScrollY,
    dataState,              \* data-state of the html element, "none" while not set
    isMobileMenuOpen,
    ariaExpanded,           \* aria-expanded of the menu button
    menuHidden,             \* the menu carries the class 'hidden'
    bodyOverflow,           \* document.body.style.overflow
    desktopNavDisplay,      \* style.display of the desktop navigation, "" while not set
    scrollInThrottle,       \* inThrottle of throttle(handleScroll, 16)
    resizeInThrottle,       \* inThrottle of throttle(handleResize, 250)
    \* animate.js
    animatePhase,           \* "unloaded": animate.js not yet evaluated; "evaluated"
    animateReducedMotion,   \* prefersReducedMotion, as the module reads it at its load
    readyState,             \* document.readyState: "loading" or "interactive"
    domListener,            \* the DOMContentLoaded listener the module added: "none",
                            \* "addIsIn" or "init"
    observerCreated,        \* new IntersectionObserver(...) has run
    fadeUp,                 \* the elements of class fade-up
    \* contact.js, input debounce
    timers,                 \* the pending timers set by the debounced input listeners
    validationTimeout       \* the id the last setTimeout returned, "none" before the first

consentVars == <<phase, present, prefersReducedMotion, currentConsent, stored, cookie,
                 analyticsCheckbox, marketingCheckbox, scripts, bannerHidden, modalHidden,
                 bannerTimers, modalTimers>>

contactVars == <<fields, now, startTime, submissionHistory, storedHistory, isSubmitting,
                 inFlight, supabaseClient, shown, errorText>>

headerVars == <<headerPhase, scrollY, innerWidth, isScrolled, lastScrollY, dataState,
                isMobileMenuOpen, ariaExpanded, menuHidden, bodyOverflow, desktopNavDisplay,
                scrollInThrottle, resizeInThrottle>>

animateVars == <<animatePhase, animateReducedMotion, readyState, domListener,
                 observerCreated, fadeUp>>

debounceVars == <<timers, validationTimeout>>

vars == <<consentVars, contactVars, headerVars, animateVars, debounceVars>>

\* what a step of the consent manager leaves alone
outsideConsent == <<contactVars, headerVars, animateVars, debounceVars>>

\* what a step of the contact form's submit handling leaves alone
outsideContact == <<consentVars, headerVars, animateVars, debounceVars>>

\* what a step of the header leaves alone
outsideHeader == <<consentVars, contactVars, animateVars, debounceVars>>

\* what a step of the scroll animations leaves alone
outsideAnimate == <<consentVars, contactVars, headerVars, debounceVars>>

(***************************************************************************)
(* Bounds of the model.                                                    *)
(***************************************************************************)
MaxScripts == 2     \* gated placeholders on a page
MaxTimers == 1      \* hide timers pending at once, per element
MaxFadeUp == 2      \* elements of class fade-up on a page
MaxTypingSteps == 8 \* steps of 100 ms the clock makes while the visitor types

(***************************************************************************)
(* Values.                                                                 *)
(***************************************************************************)
CONSENT_CATEGORIES == {"necessary", "analytics", "marketing"}

Elements == {"cookie-banner", "cookie-modal", "cookie-settings"}

\* An object literal over the three category keys; "absent": the key is not there.
NoKeys == [c \in CONSENT_CATEGORIES |-> "absent"]

Obj(n, a, m) == [necessary |-> n, analytics |-> a, marketing |-> m]

DefaultConsent == Obj("true", "false", "false")

\* ToBoolean
Truthy(v) == v \in {"true", "yes"}

\* { ...base, ...obj }: every own key of obj overrides base, a key whose value is
\* undefined included.
Spread(base, obj) ==
    [c \in CONSENT_CATEGORIES |-> IF obj[c] = "absent" THEN base[c] ELSE obj[c]]

\* A stored string: nothing stored, a string JSON.parse throws on, or the JSON text
\* of an object.
Missing == [kind |-> "missing", obj |-> NoKeys]
Corrupt == [kind |-> "corrupt", obj |-> NoKeys]

\* JSON.stringify: a key whose value is undefined is left out.
Stringify(rec) ==
    [kind |-> "object",
     obj |-> [c \in CONSENT_CATEGORIES |-> IF rec[c] = "undefined" THEN "absent" ELSE rec[c]]]

\* JSON.parse of a stored object text.
Parse(s) == s.obj

\* A gated placeholder: <script type="text/plain" data-cookie-category=c>; its body
\* is tagged by the category it was written for.
Placeholder(c) == [type |-> "text/plain", category |-> c, body |-> c]

\* The replacement with every attribute copied, type and data-cookie-category too
ActivatedCopyingAll(s) == [type |-> s.type, category |-> s.category, body |-> s.body]

\* The executable script processGatedScripts puts in its place: the body and the
\* other attributes carried over, type and data-cookie-category not.
Activated(s) == [type |-> "text/javascript", category |-> "none", body |-> s.body]

\* The pages: up to MaxScripts placeholders of any categories.  The scan handles each
\* placeholder on its own, so pages that differ only in the order of their
\* placeholders behave alike; one order stands for all of them.
CategoryRank == [necessary |-> 1, analytics |-> 2, marketing |-> 3]

Pages ==
    {p \in UNION {[1..n -> {Placeholder(c) : c \in CONSENT_CATEGORIES}] : n \in 0..MaxScripts} :
        \A i \in 1..(Len(p) - 1) : CategoryRank[p[i].category] <= CategoryRank[p[i + 1].category]}

\* What localStorage may hold when the page loads.
InitialStored ==
    {Missing, Corrupt,
     Stringify(Obj("true", "true", "false")),
     [kind |-> "object", obj |-> Obj("absent", "absent", "true")],
     [kind |-> "object", obj |-> Obj("false", "yes", "absent")]}

\* Records a caller may pass to ACTAConsent.update: { analytics: true }, and
\* { necessary: false, marketing: undefined }.
UpdateInputs ==
    {Obj("absent", "true", "absent"),
     Obj("false", "absent", "undefined")}


(***************************************************************************)
(* The functions of consent.js.                                            *)
(***************************************************************************)
\* isAllowed with a truthiness test in place of === true
IsAllowedTruthy(consent, category) ==
    IF category = "necessary" THEN TRUE ELSE Truthy(consent[category])

\* isAllowed(category), reading the record `consent` as currentConsent
IsAllowed(consent, category) ==
    IF category = "necessary" THEN TRUE ELSE consent[category] = "true"

\* document.querySelectorAll('script[type="text/plain"][data-cookie-category]')
GatedScripts == {i \in DOMAIN scripts : scripts[i].type = "text/plain"}

\* updateConsentUI: checkbox.checked = currentConsent[...], for a checkbox that exists
CheckboxAfterUI(box, v) ==
    IF box = "absent" THEN "absent"
    ELSE IF Truthy(v) THEN "checked" ELSE "unchecked"

UpdateConsentUI ==
    /\ analyticsCheckbox' = CheckboxAfterUI(analyticsCheckbox, currentConsent'.analytics)
    /\ marketingCheckbox' = CheckboxAfterUI(marketingCheckbox, currentConsent'.marketing)

\* a load that replaces the record by whatever JSON.parse returns, with no test of
\* the stored string: a missing string parses to null, which spreads to {}
LoadedReplacing(current, s, readThrows) ==
    IF ~readThrows /\ s.kind # "corrupt"
    THEN [c \in CONSENT_CATEGORIES |->
            IF Parse(s)[c] = "absent" THEN "undefined" ELSE Parse(s)[c]]
    ELSE current

\* The record loadConsent leaves, from the record `current` and the stored string s;
\* readThrows: localStorage.getItem throws.  A missing string is skipped, a corrupt
\* one makes JSON.parse throw before the assignment.
Loaded(current, s, readThrows) ==
    IF ~readThrows /\ s.kind = "object"
    THEN Spread(current, Parse(s))
    ELSE current

\* loadConsent
LoadConsent(readThrows) ==
    /\ currentConsent' = Loaded(currentConsent, stored, readThrows)
    /\ UpdateConsentUI

\* a save that assigns the record only after the write went through
SaveConsentAfterWrite(consent, writeThrows) ==
    /\ currentConsent' = IF writeThrows THEN currentConsent ELSE Spread(currentConsent, consent)
    /\ stored' = IF writeThrows THEN stored ELSE Stringify(currentConsent')
    /\ cookie' = IF writeThrows THEN cookie ELSE Stringify(currentConsent')

\* saveConsent(consent); writeThrows: localStorage.setItem throws
SaveConsent(consent, writeThrows) ==
    /\ currentConsent' = Spread(currentConsent, consent)
    /\ stored' = IF writeThrows THEN stored ELSE Stringify(currentConsent')
    /\ cookie' = IF writeThrows THEN cookie ELSE Stringify(currentConsent')

\* shouldShowBanner without the look for gated scripts
ShouldShowBannerAnyPage ==
    ~(Truthy(currentConsent'.analytics) \/ Truthy(currentConsent'.marketing))

\* shouldShowBanner, on the record just loaded
ShouldShowBanner ==
    /\ ~(Truthy(currentConsent'.analytics) \/ Truthy(currentConsent'.marketing))
    /\ GatedScripts # {}

\* showBanner
ShowBanner ==
    /\ bannerHidden' = IF "cookie-banner" \in present THEN FALSE ELSE bannerHidden
    /\ UNCHANGED bannerTimers

\* hideBanner
HideBanner ==
    IF prefersReducedMotion
    THEN bannerHidden' = TRUE /\ UNCHANGED bannerTimers
    ELSE bannerTimers' = bannerTimers + 1 /\ UNCHANGED bannerHidden

\* a showModal that cancels the pending hide timers
ShowModalCancelling ==
    /\ modalHidden' = IF "cookie-modal" \in present THEN FALSE ELSE modalHidden
    /\ modalTimers' = 0

\* showModal
ShowModal ==
    /\ modalHidden' = IF "cookie-modal" \in present THEN FALSE ELSE modalHidden
    /\ UNCHANGED modalTimers

\* hideModal that only starts the fade-out
HideModalNoTimer == UNCHANGED <<modalHidden, modalTimers>>

\* hideModal
HideModal ==
    IF prefersReducedMotion
    THEN modalHidden' = TRUE /\ UNCHANGED modalTimers
    ELSE modalTimers' = modalTimers + 1 /\ UNCHANGED modalHidden

\* a scan that also turns an active script whose category is no longer allowed back
\* into a placeholder
ProcessGatedScriptsRegating ==
    scripts' = [i \in DOMAIN scripts |->
                  IF i \in GatedScripts /\ IsAllowed(currentConsent', scripts[i].category)
                  THEN Activated(scripts[i])
                  ELSE IF scripts[i].type = "text/javascript"
                          /\ ~IsAllowed(currentConsent', scripts[i].body)
                       THEN Placeholder(scripts[i].body)
                       ELSE scripts[i]]

\* processGatedScripts, on the record as the handler has left it
ProcessGatedScripts ==
    scripts' = [i \in DOMAIN scripts |->
                  IF i \in GatedScripts /\ IsAllowed(currentConsent', scripts[i].category)
                  THEN Activated(scripts[i])
                  ELSE scripts[i]]

(***************************************************************************)
(* Values of the contact form.                                             *)
(***************************************************************************)
\* FORM_CONFIG
minMessageLength == 20

\* a limit that lets one more attempt through
maxSubmissionsPerHourOffByOne == 3 + 1

maxSubmissionsPerHour == 3

suspiciousKeywords ==
    <<<<"v", "i", "a", "g", "r", "a">>,
      <<"c", "i", "a", "l", "i", "s">>,
      <<"c", "a", "s", "i", "n", "o">>,
      <<"p", "o", "k", "e", "r">>,
      <<"l", "o", "t", "t", "e", "r", "y">>,
      <<"w", "i", "n", "n", "e", "r">>,
      <<"c", "o", "n", "g", "r", "a", "t", "u", "l", "a", "t", "i", "o", "n", "s">>,
      <<"u", "r", "g", "e", "n", "t">>,
      <<"a", "c", "t", " ", "n", "o", "w">>,
      <<"l", "i", "m", "i", "t", "e", "d", " ", "t", "i", "m", "e">>,
      <<"f", "r", "e", "e", " ", "m", "o", "n", "e", "y">>,
      <<"c", "l", "i", "c", "k", " ", "h", "e", "r", "e">>,
      <<"b", "u", "y", " ", "n", "o", "w">>,
      <<"n", "i", "g", "e", "r", "i", "a", "n", " ", "p", "r", "i", "n", "c", "e">>,
      <<"i", "n", "h", "e", "r", "i", "t", "a", "n", "c", "e">>,
      <<"l", "o", "t", "t", "e", "r", "y", " ", "w", "i", "n", "n", "e", "r">>,
      <<"b", "i", "t", "c", "o", "i", "n">>,
      <<"c", "r", "y", "p", "t", "o", "c", "u", "r", "r", "e", "n", "c", "y">>>>

\* checkRateLimit's window, 60 * 60 * 1000, and checkFormTiming's minTime
OneHour == 60 * 60 * 1000
minTime == 2000

\* The characters \s matches, of those a field can hold.
Whitespace == {" ", "\t", "\n"}

UpperCase == <<"A", "B", "C", "D", "E", "F", "G", "H", "I", "J", "K", "L", "M",
               "N", "O", "P", "Q", "R", "S", "T", "U", "V", "W", "X", "Y", "Z">>

LowerCase == <<"a", "b", "c", "d", "e", "f", "g", "h", "i", "j", "k", "l", "m",
               "n", "o", "p", "q", "r", "s", "t", "u", "v", "w", "x", "y", "z">>

Digits == {"0", "1", "2", "3", "4", "5", "6", "7", "8", "9"}

\* the class [!@#$%^&*()_+=\[\]{}|;':",./<>?] of calculateSpamScore
SpecialChars == {"!", "@", "#", "$", "%", "^", "&", "*", "(", ")", "_", "+", "=", "[", "]",
                 "{", "}", "|", ";", "'", ":", "\"", ",", ".", "/", "<", ">", "?"}

\* String.prototype.toLowerCase
ToLowerChar(c) ==
    IF \E i \in 1..26 : UpperCase[i] = c
    THEN LowerCase[CHOOSE i \in 1..26 : UpperCase[i] = c]
    ELSE c

ToLowerCase(s) == [i \in 1..Len(s) |-> ToLowerChar(s[i])]

\* String.prototype.includes
Includes(s, k) == \E i \in 0..(Len(s) - Len(k)) : SubSeq(s, i + 1, i + Len(k)) = k

\* String.prototype.trim
Trim(s) ==
    LET kept == {i \in 1..Len(s) : s[i] \notin Whitespace}
    IN  IF kept = {} THEN <<>>
        ELSE SubSeq(s, CHOOSE i \in kept : \A j \in kept : i <= j,
                       CHOOSE i \in kept : \A j \in kept : i >= j)

\* FORM_CONFIG.emailRegex.test: /^[^\s@]+@[^\s@]+\.[^\s@]+$/
EmailRegexTest(s) ==
    LET ats == {i \in 1..Len(s) : s[i] = "@"}
    IN  /\ \A i \in 1..Len(s) : s[i] \notin Whitespace
        /\ Cardinality(ats) = 1
        /\ \E p \in ats : p > 1 /\ \E q \in (p + 2)..(Len(s) - 1) : s[q] = "."

\* Texts a visitor may enter.
\* "Ann Lee"
NameAnn == <<"A", "n", "n", " ", "L", "e", "e">>

\* "  "
NameBlank == <<" ", " ">>

\* "VIAGRA Ltd"
NameViagra == <<"V", "I", "A", "G", "R", "A", " ", "L", "t", "d">>

\* "ann@acta.eu"
EmailAnn == <<"a", "n", "n", "@", "a", "c", "t", "a", ".", "e", "u">>

\* "ann@acta"
EmailNoDot == <<"a", "n", "n", "@", "a", "c", "t", "a">>

\* "ViAgRa@shop.io"
EmailViagra == <<"V", "i", "A", "g", "R", "a", "@", "s", "h", "o", "p", ".", "i", "o">>

\* "Please call me about the audit."
MsgAudit == <<"P", "l", "e", "a", "s", "e", " ", "c", "a", "l", "l", " ", "m", "e", " ", "a", "b", "o", "u", "t", " ", "t", "h", "e", " ", "a", "u", "d", "i", "t", ".">>

\* "  Please call me.   "
MsgPadded == <<" ", " ", "P", "l", "e", "a", "s", "e", " ", "c", "a", "l", "l", " ", "m", "e", ".", " ", " ", " ">>

\* "Cheap Viagra for the big audit."
MsgViagra == <<"C", "h", "e", "a", "p", " ", "V", "i", "a", "g", "r", "a", " ", "f", "o", "r", " ", "t", "h", "e", " ", "b", "i", "g", " ", "a", "u", "d", "i", "t", ".">>

\* "PLEASE CALL ME ABOUT THE AUDIT"
MsgShout == <<"P", "L", "E", "A", "S", "E", " ", "C", "A", "L", "L", " ", "M", "E", " ", "A", "B", "O", "U", "T", " ", "T", "H", "E", " ", "A", "U", "D", "I", "T">>

\* "viagra casino poker bitcoin urgent cialis"
MsgManyKeywords == <<"v", "i", "a", "g", "r", "a", " ", "c", "a", "s", "i", "n", "o", " ", "p", "o", "k", "e", "r", " ", "b", "i", "t", "c", "o", "i", "n", " ", "u", "r", "g", "e", "n", "t", " ", "c", "i", "a", "l", "i", "s">>

\* "http://x.io"
HoneypotUrl == <<"h", "t", "t", "p", ":", "/", "/", "x", ".", "i", "o">>

\* The fields the handlers read: #full-name, #email, #message, #consent, #website_url.
Form(n, e, m, c, h) == [fullName |-> n, email |-> e, message |-> m, consent |-> c, honeypot |-> h]

\* the form after contactForm.reset()
BlankForm == Form(<<>>, <<>>, <<>>, FALSE, <<>>)

ValidForm == Form(NameAnn, EmailAnn, MsgAudit, TRUE, <<>>)

\* What a visitor (or a bot) may have entered when a submit event arrives.
Forms ==
    {BlankForm,
     ValidForm,
     Form(NameBlank, EmailAnn, MsgAudit, TRUE, <<>>),
     Form(NameAnn, EmailNoDot, MsgAudit, TRUE, <<>>),
     Form(NameAnn, EmailAnn, MsgPadded, TRUE, <<>>),
     Form(NameAnn, EmailAnn, MsgAudit, FALSE, <<>>),
     Form(NameAnn, EmailAnn, MsgAudit, TRUE, HoneypotUrl),
     Form(NameAnn, EmailAnn, MsgViagra, TRUE, <<>>),
     Form(NameViagra, EmailNoDot, MsgAudit, FALSE, <<>>),
     Form(NameAnn, EmailViagra, MsgAudit, TRUE, <<>>),
     Form(NameAnn, EmailAnn, MsgManyKeywords, TRUE, <<>>),
     Form(NameAnn, EmailAnn, MsgShout, TRUE, <<>>)}

(***************************************************************************)
(* The functions of contact.js.                                            *)
(***************************************************************************)
\* The instants at which the model lets events happen, in milliseconds after the
\* module was evaluated: around the minimum dwell time after the start, and around
\* one hour after the first instants.
Instants == {0, 1500, 2000, 2500, 3600000, 3601500, 3602500}

\* JSON.stringify and JSON.parse of the array of timestamps
NoHistory == [kind |-> "missing", items |-> <<>>]

\* a write that leaves out the newest timestamp
StringifyHistoryWithoutLast(h) == [kind |-> "array", items |-> SubSeq(h, 1, Len(h) - 1)]

StringifyHistory(h) == [kind |-> "array", items |-> h]

ParseHistory(s) == IF s.kind = "array" THEN s.items ELSE <<>>

\* The texts showError is called with; DefaultErrorText is the span's text in the page.
DefaultErrorText == "default"
HoneypotMessage == "Submission blocked due to suspicious activity."
RateLimitMessage == "Too many submissions. Please wait before submitting again."
SpamMessage == "Your message contains content that appears to be spam."
TimingMessage == "Please take your time to fill out the form properly."
TimeoutMessage == "Request timed out. Please check your connection and try again."
NetworkMessage == "Network error. Please check your connection and try again."
CorsMessage == "Connection error. Please try again or contact us directly."
CompatMessage ==
    "Browser compatibility issue. Please try refreshing the page or using a different browser."

\* a honeypot test that finds nothing
HoneypotNeverFilled(f) == FALSE

\* the honeypot test of passAntiSpamChecks
HoneypotFilled(f) == Trim(f.honeypot) # <<>>

\* a rate check that never drops an old timestamp
PrunedNever(h, t) == h

\* checkRateLimit: the history with the timestamps of the past hour only
Pruned(h, t) == SelectSeq(h, LAMBDA ts : ts > t - OneHour)

\* `${message} ${fullName} ${email}`, each lowercased
AllText(f) ==
    ToLowerCase(f.message) \o <<" ">> \o ToLowerCase(f.fullName) \o <<" ">> \o ToLowerCase(f.email)

\* the keywords found in the text
KeywordsIn(text) ==
    {k \in DOMAIN suspiciousKeywords : Includes(text, ToLowerCase(suspiciousKeywords[k]))}

\* a scan of the message alone
ContainsSuspiciousContentInMessage(f) == KeywordsIn(ToLowerCase(f.message)) # {}

\* containsSuspiciousContent
ContainsSuspiciousContent(f) == KeywordsIn(AllText(f)) # {}

\* a timing test with half the dwell time
CheckFormTimingHalf(start, t) == 2 * (t - start) > minTime

\* checkFormTiming; the start time is always set by the time a submit event arrives
CheckFormTiming(start, t) == t - start > minTime

ValidateRequired(f) == Len(Trim(f.fullName)) > 0

ValidateEmail(f) == Len(Trim(f.email)) > 0 /\ EmailRegexTest(Trim(f.email))

ValidateMessage(f) == Len(Trim(f.message)) >= minMessageLength

ValidateConsent(f) == f.consent

\* a validation that leaves the consent checkbox out
ValidateAllFieldsButConsent(f) ==
    ValidateRequired(f) /\ ValidateEmail(f) /\ ValidateMessage(f)

\* validateAllFields, on a page that holds the four fields and their error elements
ValidateAllFields(f) ==
    ValidateRequired(f) /\ ValidateEmail(f) /\ ValidateMessage(f) /\ ValidateConsent(f)

\* occurrences in s of the characters of a class
Count(s, class) == Cardinality({i \in 1..Len(s) : s[i] \in class})

\* /(.)\1{4,}/.test(s): some character, not a line break, five times in a row
HasRun(s) ==
    \E i \in 1..(Len(s) - 4) :
        s[i] # "\n" /\ \A j \in (i + 1)..(i + 4) : s[j] = s[i]

\* The points calculateSpamScore adds up.  Its message is the lowercased one, so the
\* uppercase count is taken on a text without uppercase letters; a ratio over an
\* empty message is NaN and exceeds nothing.
KeywordPoints(f) == 20 * Cardinality(KeywordsIn(AllText(f)))

MessagePoints(f) ==
    LET message == ToLowerCase(f.message)
        length == Len(message)
    IN  (IF 10 * Count(message, {UpperCase[i] : i \in 1..26}) > 3 * length THEN 15 ELSE 0)
        + (IF 10 * Count(message, Digits) > 2 * length THEN 10 ELSE 0)
        + (IF 10 * Count(message, SpecialChars) > length THEN 10 ELSE 0)
        + (IF length < 30 THEN 10 ELSE 0)
        + (IF length > 1000 THEN 15 ELSE 0)
        + (IF HasRun(message) THEN 20 ELSE 0)

TimePoints(timeSpent) ==
    (IF timeSpent < 3000 THEN 25 ELSE 0) + (IF timeSpent > 300000 THEN 10 ELSE 0)

\* calculateSpamScore
CalculateSpamScore(f, start, t) ==
    LET score == KeywordPoints(f) + MessagePoints(f) + TimePoints(t - start)
    IN  IF score < 100 THEN score ELSE 100

\* What the checks make of each form; the handlers look their answers up here.
Checked ==
    [f \in Forms |->
        [honeypot |-> HoneypotFilled(f),
         suspicious |-> ContainsSuspiciousContent(f),
         valid |-> ValidateAllFields(f)]]

\* How an insert call may end: with data, with an error object, or by throwing.  A
\* message is the set of the substrings it holds among those the handler looks for.
Markers ==
    {"Database error", "Failed to fetch", "NetworkError", "TypeError", "Request timeout",
     "CORS", "ReferenceError"}

Outcomes ==
    {[kind |-> "data", message |-> {}],
     [kind |-> "error", message |-> {}],
     [kind |-> "throw", message |-> {}]}
    \cup {[kind |-> "throw", message |-> {m}] : m \in Markers \ {"Database error"}}

\* The contact form as contact.js leaves it once evaluated and initialized at
\* instant 0, without a backend client.
ContactAtRest ==
    /\ fields = BlankForm
    /\ now = 0
    /\ startTime = 0
    /\ submissionHistory = <<>>
    /\ storedHistory = NoHistory
    /\ isSubmitting = FALSE
    /\ inFlight = 0
    /\ supabaseClient = FALSE
    /\ shown = "none"
    /\ errorText = DefaultErrorText

(***************************************************************************)
(* Values of the header.                                                   *)
(***************************************************************************)
\* scroll offsets in px, on both sides of the header's threshold
ScrollPositions == {0, 48, 49, 200}

\* window widths in px, on both sides of the desktop breakpoint
Widths == {375, 768}

\* header.js evaluated, its init() not yet run, on a narrow page at its top.
HeaderAtRest ==
    /\ headerPhase = "loading"
    /\ scrollY = 0
    /\ innerWidth = 375
    /\ isScrolled = FALSE
    /\ lastScrollY = 0
    /\ dataState = "none"
    /\ isMobileMenuOpen = FALSE
    /\ ariaExpanded = "false"
    /\ menuHidden = TRUE
    /\ bodyOverflow = ""
    /\ desktopNavDisplay = ""
    /\ scrollInThrottle = FALSE
    /\ resizeInThrottle = FALSE

(***************************************************************************)
(* Values of the scroll animations and of the input debounce.              *)
(***************************************************************************)
\* A fade-up element: whether it carries the class is-in and the attribute
\* data-observed, whether the observer observes it, whether it intersects the
\* viewport by the observer's margin and threshold, and the entry the observer has
\* queued for it: "none", "out", or "in" when an entry with isIntersecting is queued.
FadeUpElement(intersecting) ==
    [isIn |-> FALSE, dataObserved |-> FALSE, observed |-> FALSE,
     intersecting |-> intersecting, queued |-> "none"]

\* the pages: their fade-up elements, in or out of the viewport
FadeUpPages == [1..MaxFadeUp -> {FadeUpElement(b) : b \in BOOLEAN}]

\* animate.js not yet evaluated, on a page whose elements are out of the viewport.
AnimateAtRest ==
    /\ animatePhase = "unloaded"
    /\ animateReducedMotion = FALSE
    /\ readyState = "loading"
    /\ domListener = "none"
    /\ observerCreated = FALSE
    /\ fadeUp = [i \in 1..MaxFadeUp |-> FadeUpElement(FALSE)]

\* no input event yet
DebounceAtRest ==
    /\ timers = {}
    /\ validationTimeout = "none"

(***************************************************************************)
(* Initial state: the module has been evaluated, init() has not run.       *)
(***************************************************************************)
Init ==
    /\ phase = "loading"
    /\ present \in {Elements} \cup {Elements \ {e} : e \in Elements}
    /\ prefersReducedMotion \in BOOLEAN
    /\ currentConsent = DefaultConsent
    /\ stored \in InitialStored
    /\ cookie = Missing
    /\ analyticsCheckbox \in {"absent", "unchecked"}
    /\ marketingCheckbox = analyticsCheckbox
    /\ scripts \in Pages
    /\ bannerHidden = TRUE
    /\ modalHidden = TRUE
    /\ bannerTimers = 0
    /\ modalTimers = 0
    /\ ContactAtRest
    /\ HeaderAtRest
    /\ AnimateAtRest
    /\ DebounceAtRest

(***************************************************************************)
(* Operations.                                                             *)
(***************************************************************************)
\* an init that loads the record and scans before it looks for the elements
InitMissingAfterLoad ==
    /\ phase = "loading"
    /\ present # Elements
    /\ LoadConsent(FALSE)
    /\ ProcessGatedScripts
    /\ phase' = "disabled"
    /\ UNCHANGED <<present, prefersReducedMotion, stored, cookie, bannerHidden,
                   modalHidden, bannerTimers, modalTimers>>
    /\ UNCHANGED outsideConsent

\* init() on a page that lacks a required element: a warning, nothing else
InitMissing ==
    /\ phase = "loading"
    /\ present # Elements
    /\ phase' = "disabled"
    /\ UNCHANGED <<present, prefersReducedMotion, currentConsent, stored, cookie,
                   analyticsCheckbox, marketingCheckbox, scripts, bannerHidden,
                   modalHidden, bannerTimers, modalTimers>>
    /\ UNCHANGED outsideConsent

\* init() on a page with the required elements; readThrows: localStorage.getItem throws
InitLoaded(readThrows) ==
    /\ phase = "loading"
    /\ present = Elements
    /\ LoadConsent(readThrows)
    /\ IF ShouldShowBanner THEN ShowBanner ELSE UNCHANGED <<bannerHidden, bannerTimers>>
    /\ ProcessGatedScripts
    /\ phase' = "ready"
    /\ UNCHANGED <<present, prefersReducedMotion, stored, cookie, modalHidden, modalTimers>>
    /\ UNCHANGED outsideConsent

InitConsent == \E readThrows \in BOOLEAN : InitLoaded(readThrows)

\* a user action: saveConsent(consent); hideBanner(); hideModal(); processGatedScripts().
\* Its listener is registered by init; MaxTimers caps the timers the model lets pend.
UserAction(consent, writeThrows) ==
    /\ phase = "ready"
    /\ bannerTimers < MaxTimers /\ modalTimers < MaxTimers
    /\ SaveConsent(consent, writeThrows)
    /\ HideBanner
    /\ HideModal
    /\ ProcessGatedScripts
    /\ UNCHANGED <<phase, present, prefersReducedMotion, analyticsCheckbox, marketingCheckbox>>
    /\ UNCHANGED outsideConsent

\* acceptAll: a click on #accept-all or #accept-all-modal
AcceptAllSaving(writeThrows) == UserAction(Obj("true", "true", "true"), writeThrows)

AcceptAll == \E writeThrows \in BOOLEAN : AcceptAllSaving(writeThrows)

\* rejectNonEssential: a click on #reject-non-essential
RejectNonEssentialSaving(writeThrows) == UserAction(Obj("true", "false", "false"), writeThrows)

RejectNonEssential == \E writeThrows \in BOOLEAN : RejectNonEssentialSaving(writeThrows)

\* what savePreferences reads from a checkbox: its checked state, false without one
CheckboxValue(box) == IF box = "checked" THEN "true" ELSE "false"

\* savePreferences: a click on #save-preferences
SavePreferencesSaving(writeThrows) ==
    UserAction(Obj("true", CheckboxValue(analyticsCheckbox), CheckboxValue(marketingCheckbox)),
               writeThrows)

SavePreferences == \E writeThrows \in BOOLEAN : SavePreferencesSaving(writeThrows)

\* window.ACTAConsent.update = saveConsent, callable as soon as the module is evaluated
UpdateSaving(consent, writeThrows) ==
    /\ SaveConsent(consent, writeThrows)
    /\ UNCHANGED <<phase, present, prefersReducedMotion, analyticsCheckbox, marketingCheckbox,
                   scripts, bannerHidden, modalHidden, bannerTimers, modalTimers>>
    /\ UNCHANGED outsideConsent

Update == \E consent \in UpdateInputs, writeThrows \in BOOLEAN : UpdateSaving(consent, writeThrows)

\* the user ticks or clears a checkbox of the modal
ToggleCheckbox ==
    /\ phase = "ready"
    /\ \/ /\ analyticsCheckbox # "absent"
          /\ analyticsCheckbox' = IF analyticsCheckbox = "checked" THEN "unchecked" ELSE "checked"
          /\ UNCHANGED marketingCheckbox
       \/ /\ marketingCheckbox # "absent"
          /\ marketingCheckbox' = IF marketingCheckbox = "checked" THEN "unchecked" ELSE "checked"
          /\ UNCHANGED analyticsCheckbox
    /\ UNCHANGED <<phase, present, prefersReducedMotion, currentConsent, stored, cookie,
                   scripts, bannerHidden, modalHidden, bannerTimers, modalTimers>>
    /\ UNCHANGED outsideConsent

\* window.ACTAConsent.showBanner; before init has looked the banner up it returns
\* at once
ApiShowBanner ==
    /\ phase # "loading"
    /\ ShowBanner
    /\ UNCHANGED <<phase, present, prefersReducedMotion, currentConsent, stored, cookie,
                   analyticsCheckbox, marketingCheckbox, scripts, modalHidden, modalTimers>>
    /\ UNCHANGED outsideConsent

\* showModal: a click on #manage-preferences or #cookie-settings, or
\* window.ACTAConsent.showModal (which returns at once before init)
OpenModal ==
    /\ phase # "loading"
    /\ ShowModal
    /\ UNCHANGED <<phase, present, prefersReducedMotion, currentConsent, stored, cookie,
                   analyticsCheckbox, marketingCheckbox, scripts, bannerHidden, bannerTimers>>
    /\ UNCHANGED outsideConsent

\* hideModal from #close-modal, a click on the backdrop, or Escape, with the modal
\* on screen
CloseModal ==
    /\ phase = "ready"
    /\ ~modalHidden
    /\ modalTimers < MaxTimers
    /\ HideModal
    /\ UNCHANGED <<phase, present, prefersReducedMotion, currentConsent, stored, cookie,
                   analyticsCheckbox, marketingCheckbox, scripts, bannerHidden, bannerTimers>>
    /\ UNCHANGED outsideConsent

\* the callback hideBanner scheduled 300 ms earlier
BannerTimerFires ==
    /\ bannerTimers > 0
    /\ bannerTimers' = bannerTimers - 1
    /\ bannerHidden' = TRUE
    /\ UNCHANGED <<phase, present, prefersReducedMotion, currentConsent, stored, cookie,
                   analyticsCheckbox, marketingCheckbox, scripts, modalHidden, modalTimers>>
    /\ UNCHANGED outsideConsent

\* the callback hideModal scheduled 300 ms earlier
ModalTimerFires ==
    /\ modalTimers > 0
    /\ modalTimers' = modalTimers - 1
    /\ modalHidden' = TRUE
    /\ UNCHANGED <<phase, present, prefersReducedMotion, currentConsent, stored, cookie,
                   analyticsCheckbox, marketingCheckbox, scripts, bannerHidden, bannerTimers>>
    /\ UNCHANGED outsideConsent

Next ==
    \/ InitMissing
    \/ InitConsent
    \/ AcceptAll
    \/ RejectNonEssential
    \/ SavePreferences
    \/ Update
    \/ ToggleCheckbox
    \/ ApiShowBanner
    \/ OpenModal
    \/ CloseModal
    \/ BannerTimerFires
    \/ ModalTimerFires

Spec == Init /\ [][Next]_vars

\* A callback handed to setTimeout runs once its delay has passed.
FairSpec == Spec /\ WF_vars(BannerTimerFires) /\ WF_vars(ModalTimerFires)

(***************************************************************************)
(* The contact form: initial state and operations.                         *)
(***************************************************************************)
\* The consent manager before its init, on a page without gated scripts.
ConsentAtRest ==
    /\ phase = "loading"
    /\ present = Elements
    /\ prefersReducedMotion = FALSE
    /\ currentConsent = DefaultConsent
    /\ stored = Missing
    /\ cookie = Missing
    /\ analyticsCheckbox = "absent"
    /\ marketingCheckbox = "absent"
    /\ scripts = <<>>
    /\ bannerHidden = TRUE
    /\ modalHidden = TRUE
    /\ bannerTimers = 0
    /\ modalTimers = 0

\* contact.js evaluated with nothing stored and init() run at instant 0; the backend
\* client is there, or is not (no configuration, or the library not loaded yet).
ContactInit ==
    /\ ConsentAtRest
    /\ HeaderAtRest
    /\ AnimateAtRest
    /\ DebounceAtRest
    /\ fields = BlankForm
    /\ now = 0
    /\ startTime = now
    /\ submissionHistory = ParseHistory(NoHistory)
    /\ storedHistory = NoHistory
    /\ isSubmitting = FALSE
    /\ inFlight = 0
    /\ supabaseClient \in BOOLEAN
    /\ shown = "none"
    /\ errorText = DefaultErrorText

\* showSuccess
ShowSuccess == shown' = "success" /\ UNCHANGED errorText

\* showError(customMessage)
ShowError(customMessage) == shown' = "error" /\ errorText' = customMessage

\* showError(): the span keeps the text it has
ShowErrorGeneric == shown' = "error" /\ UNCHANGED errorText

\* a reset of the fields alone
ResetFormKeepingStartTime == fields' = BlankForm /\ UNCHANGED startTime

\* resetFormSafely
ResetFormSafely == fields' = BlankForm /\ startTime' = now

\* The handler from its validation on, the anti-spam checks passed: blocked by a
\* failing validator; else the guard is set and the insert call starts, or, without
\* a client, the fallback shows success and the finally block clears the guard.
ValidateAndSend ==
    IF ~Checked[fields].valid
    THEN UNCHANGED <<fields, startTime, isSubmitting, inFlight, shown, errorText>>
    ELSE IF supabaseClient
    THEN /\ isSubmitting' = TRUE
         /\ inFlight' = inFlight + 1
         /\ UNCHANGED <<fields, startTime, shown, errorText>>
    ELSE /\ ShowSuccess
         /\ ResetFormSafely
         /\ isSubmitting' = FALSE
         /\ UNCHANGED inFlight

\* handleSubmit up to its first await, with `guard` read as isSubmitting;
\* writeThrows: localStorage.setItem throws in checkRateLimit, which ends the
\* handler there.
HandleSubmitFrom(guard, writeThrows) ==
    /\ IF guard
       THEN UNCHANGED <<fields, startTime, submissionHistory, storedHistory, isSubmitting,
                        inFlight, shown, errorText>>
       ELSE IF Checked[fields].honeypot
       THEN /\ ShowError(HoneypotMessage)
            /\ UNCHANGED <<fields, startTime, submissionHistory, storedHistory, isSubmitting,
                           inFlight>>
       ELSE IF Len(Pruned(submissionHistory, now)) >= maxSubmissionsPerHour
       THEN /\ submissionHistory' = Pruned(submissionHistory, now)
            /\ ShowError(RateLimitMessage)
            /\ UNCHANGED <<fields, startTime, storedHistory, isSubmitting, inFlight>>
       ELSE /\ submissionHistory' = Append(Pruned(submissionHistory, now), now)
            /\ IF writeThrows
               THEN UNCHANGED <<fields, startTime, storedHistory, isSubmitting, inFlight,
                                shown, errorText>>
               ELSE /\ storedHistory' = StringifyHistory(submissionHistory')
                    /\ IF Checked[fields].suspicious
                       THEN /\ ShowError(SpamMessage)
                            /\ UNCHANGED <<fields, startTime, isSubmitting, inFlight>>
                       ELSE IF ~CheckFormTiming(startTime, now)
                       THEN /\ ShowError(TimingMessage)
                            /\ UNCHANGED <<fields, startTime, isSubmitting, inFlight>>
                       ELSE ValidateAndSend
    /\ UNCHANGED <<now, supabaseClient>>
    /\ UNCHANGED outsideContact

\* a handler that does not look at the guard flag
HandleSubmitUnguarded(writeThrows) == HandleSubmitFrom(FALSE, writeThrows)

\* handleSubmit: a submit event
HandleSubmit(writeThrows) == HandleSubmitFrom(isSubmitting, writeThrows)

Submit == \E writeThrows \in BOOLEAN : HandleSubmit(writeThrows)

\* The message the handler's catch blocks see: an error object returned by the
\* insert is thrown again as `Database error: ${error.message}`.
Thrown(outcome) ==
    IF outcome.kind = "error" THEN outcome.message \cup {"Database error"} ELSE outcome.message

\* the inner catch: these messages end as a success
InnerCatchSucceeds(message) ==
    message \cap {"Database error", "Failed to fetch", "NetworkError", "TypeError"} # {}

\* the outer catch, for a message the inner catch threw again
OuterCatch(message) ==
    IF "Database error" \in message THEN ShowSuccess /\ ResetFormSafely
    ELSE IF "Request timeout" \in message
    THEN ShowError(TimeoutMessage) /\ UNCHANGED <<fields, startTime>>
    ELSE IF message \cap {"Failed to fetch", "NetworkError"} # {}
    THEN ShowError(NetworkMessage) /\ UNCHANGED <<fields, startTime>>
    ELSE IF "CORS" \in message
    THEN ShowError(CorsMessage) /\ UNCHANGED <<fields, startTime>>
    ELSE IF message \cap {"TypeError", "ReferenceError"} # {}
    THEN ShowError(CompatMessage) /\ UNCHANGED <<fields, startTime>>
    ELSE ShowErrorGeneric /\ UNCHANGED <<fields, startTime>>

\* a handler that clears the guard on its success paths only
SettlesKeepingGuardOnError(outcome) ==
    /\ inFlight > 0
    /\ inFlight' = inFlight - 1
    /\ IF outcome.kind = "data" \/ InnerCatchSucceeds(Thrown(outcome))
       THEN ShowSuccess /\ ResetFormSafely /\ isSubmitting' = FALSE
       ELSE OuterCatch(Thrown(outcome)) /\ isSubmitting' = (shown' = "error")
    /\ UNCHANGED <<now, submissionHistory, storedHistory, supabaseClient>>
    /\ UNCHANGED outsideContact

\* handleSubmit from the await on: the insert call settles with `outcome`, and the
\* finally block clears the guard
Settles(outcome) ==
    /\ inFlight > 0
    /\ inFlight' = inFlight - 1
    /\ IF outcome.kind = "data" \/ InnerCatchSucceeds(Thrown(outcome))
       THEN ShowSuccess /\ ResetFormSafely
       ELSE OuterCatch(Thrown(outcome))
    /\ isSubmitting' = FALSE
    /\ UNCHANGED <<now, submissionHistory, storedHistory, supabaseClient>>
    /\ UNCHANGED outsideContact

Settle == \E outcome \in Outcomes : Settles(outcome)

\* the visitor edits the fields
Fill ==
    /\ fields' \in Forms \ {fields}
    /\ UNCHANGED <<now, startTime, submissionHistory, storedHistory, isSubmitting, inFlight,
                   supabaseClient, shown, errorText>>
    /\ UNCHANGED outsideContact

\* time passes
Tick ==
    /\ now' \in {t \in Instants : t > now}
    /\ UNCHANGED <<fields, startTime, submissionHistory, storedHistory, isSubmitting,
                   inFlight, supabaseClient, shown, errorText>>
    /\ UNCHANGED outsideContact

\* initClient, retried every 500 ms until the library is loaded
InitClient ==
    /\ ~supabaseClient
    /\ supabaseClient' = TRUE
    /\ UNCHANGED <<fields, now, startTime, submissionHistory, storedHistory, isSubmitting,
                   inFlight, shown, errorText>>
    /\ UNCHANGED outsideContact

ContactNext ==
    \/ Submit
    \/ Settle
    \/ Fill
    \/ Tick
    \/ InitClient

ContactSpec == ContactInit /\ [][ContactNext]_vars

\* The insert call settles: supabase-js resolves or rejects its promise.
ContactFairSpec == ContactSpec /\ WF_vars(Settle)

(***************************************************************************)
(* The header: initial state and operations.                               *)
(***************************************************************************)
\* header.js evaluated: the page may have been opened at a restored scroll offset
\* and at either width; the menu is closed.
HeaderInit ==
    /\ ConsentAtRest
    /\ ContactAtRest
    /\ AnimateAtRest
    /\ DebounceAtRest
    /\ headerPhase = "loading"
    /\ scrollY \in ScrollPositions
    /\ innerWidth \in Widths
    /\ isScrolled = FALSE
    /\ lastScrollY = 0
    /\ dataState = "none"
    /\ isMobileMenuOpen = FALSE
    /\ ariaExpanded = "false"
    /\ menuHidden = TRUE
    /\ bodyOverflow = ""
    /\ desktopNavDisplay = ""
    /\ scrollInThrottle = FALSE
    /\ resizeInThrottle = FALSE

\* handleScroll, reading the offset y, with `state` the data-state it finds
HandleScroll(y, state) ==
    /\ IF y > 48 /\ ~isScrolled
       THEN isScrolled' = TRUE /\ dataState' = "scrolled"
       ELSE IF y <= 48 /\ isScrolled
       THEN isScrolled' = FALSE /\ dataState' = "loaded"
       ELSE isScrolled' = isScrolled /\ dataState' = state
    /\ lastScrollY' = y

\* openMobileMenu
OpenMobileMenu ==
    /\ ariaExpanded' = "true"
    /\ menuHidden' = FALSE
    /\ isMobileMenuOpen' = TRUE
    /\ bodyOverflow' = "hidden"

\* closeMobileMenu
CloseMobileMenu ==
    /\ ariaExpanded' = "false"
    /\ menuHidden' = TRUE
    /\ isMobileMenuOpen' = FALSE
    /\ bodyOverflow' = ""

\* updateNavigationVisibility at width w
UpdateNavigationVisibility(w) ==
    desktopNavDisplay' = IF w >= 768 THEN "block" ELSE "none"

\* init
HeaderInitRuns ==
    /\ headerPhase = "loading"
    /\ headerPhase' = "ready"
    /\ HandleScroll(scrollY, "loaded")
    /\ UpdateNavigationVisibility(innerWidth)
    /\ UNCHANGED <<scrollY, innerWidth, isMobileMenuOpen, ariaExpanded, menuHidden,
                   bodyOverflow, scrollInThrottle, resizeInThrottle>>
    /\ UNCHANGED outsideHeader

\* The page scrolls to offset y and the scroll event reaches the listener, if init
\* has added it: throttle(handleScroll, 16) calls handleScroll and closes for 16 ms,
\* or, while closed, drops the event.
Scroll(y) ==
    /\ scrollY' = y
    /\ IF headerPhase = "ready" /\ ~scrollInThrottle
       THEN HandleScroll(y, dataState) /\ scrollInThrottle' = TRUE
       ELSE UNCHANGED <<isScrolled, lastScrollY, dataState, scrollInThrottle>>
    /\ UNCHANGED <<headerPhase, innerWidth, isMobileMenuOpen, ariaExpanded, menuHidden,
                   bodyOverflow, desktopNavDisplay, resizeInThrottle>>
    /\ UNCHANGED outsideHeader

ScrollEvent == \E y \in ScrollPositions \ {scrollY} : Scroll(y)

\* the 16 ms timer of the scroll throttle: inThrottle = false
ScrollThrottleExpires ==
    /\ scrollInThrottle
    /\ scrollInThrottle' = FALSE
    /\ UNCHANGED <<headerPhase, scrollY, innerWidth, isScrolled, lastScrollY, dataState,
                   isMobileMenuOpen, ariaExpanded, menuHidden, bodyOverflow,
                   desktopNavDisplay, resizeInThrottle>>
    /\ UNCHANGED outsideHeader

\* what a step of the mobile menu leaves alone
outsideMenu ==
    <<headerPhase, scrollY, innerWidth, isScrolled, lastScrollY, dataState,
      desktopNavDisplay, scrollInThrottle, resizeInThrottle>>

\* toggleMobileMenu: a click on the menu button
ToggleMobileMenu ==
    /\ headerPhase = "ready"
    /\ IF ~isMobileMenuOpen THEN OpenMobileMenu ELSE CloseMobileMenu
    /\ UNCHANGED outsideMenu
    /\ UNCHANGED outsideHeader

\* handleMobileMenuLinkClick: a click on a link of the visible menu
MobileMenuLinkClick ==
    /\ headerPhase = "ready"
    /\ ~menuHidden
    /\ CloseMobileMenu
    /\ UNCHANGED outsideMenu
    /\ UNCHANGED outsideHeader

\* handleEscapeKey with key 'Escape'
EscapeKey ==
    /\ headerPhase = "ready"
    /\ IF isMobileMenuOpen
       THEN CloseMobileMenu
       ELSE UNCHANGED <<isMobileMenuOpen, ariaExpanded, menuHidden, bodyOverflow>>
    /\ UNCHANGED outsideMenu
    /\ UNCHANGED outsideHeader

\* the document's click listener, for a click outside the menu and its button
ClickOutside ==
    /\ headerPhase = "ready"
    /\ IF isMobileMenuOpen
       THEN CloseMobileMenu
       ELSE UNCHANGED <<isMobileMenuOpen, ariaExpanded, menuHidden, bodyOverflow>>
    /\ UNCHANGED outsideMenu
    /\ UNCHANGED outsideHeader

\* The window is resized to width w and the resize event reaches the listener, if
\* init has added it: throttle(handleResize, 250) calls handleResize and closes for
\* 250 ms, or, while closed, drops the event.
Resize(w) ==
    /\ innerWidth' = w
    /\ IF headerPhase = "ready" /\ ~resizeInThrottle
       THEN /\ IF w >= 768 /\ isMobileMenuOpen
               THEN CloseMobileMenu
               ELSE UNCHANGED <<isMobileMenuOpen, ariaExpanded, menuHidden, bodyOverflow>>
            /\ UpdateNavigationVisibility(w)
            /\ resizeInThrottle' = TRUE
       ELSE UNCHANGED <<isMobileMenuOpen, ariaExpanded, menuHidden, bodyOverflow,
                        desktopNavDisplay, resizeInThrottle>>
    /\ UNCHANGED <<headerPhase, scrollY, isScrolled, lastScrollY, dataState, scrollInThrottle>>
    /\ UNCHANGED outsideHeader

ResizeEvent == \E w \in Widths \ {innerWidth} : Resize(w)

\* the 250 ms timer of the resize throttle: inThrottle = false
ResizeThrottleExpires ==
    /\ resizeInThrottle
    /\ resizeInThrottle' = FALSE
    /\ UNCHANGED <<headerPhase, scrollY, innerWidth, isScrolled, lastScrollY, dataState,
                   isMobileMenuOpen, ariaExpanded, menuHidden, bodyOverflow,
                   desktopNavDisplay, scrollInThrottle>>
    /\ UNCHANGED outsideHeader

\* window.ACTAHeader.openMobileMenu()
ApiOpenMobileMenu ==
    /\ OpenMobileMenu
    /\ UNCHANGED outsideMenu
    /\ UNCHANGED outsideHeader

\* window.ACTAHeader.closeMobileMenu()
ApiCloseMobileMenu ==
    /\ CloseMobileMenu
    /\ UNCHANGED outsideMenu
    /\ UNCHANGED outsideHeader

HeaderNext ==
    \/ HeaderInitRuns
    \/ ScrollEvent
    \/ ScrollThrottleExpires
    \/ ToggleMobileMenu
    \/ MobileMenuLinkClick
    \/ EscapeKey
    \/ ClickOutside
    \/ ResizeEvent
    \/ ResizeThrottleExpires
    \/ ApiOpenMobileMenu
    \/ ApiCloseMobileMenu

HeaderSpec == HeaderInit /\ [][HeaderNext]_vars

\* A callback handed to setTimeout runs once its delay has passed.
HeaderFairSpec ==
    HeaderSpec /\ WF_vars(ScrollThrottleExpires) /\ WF_vars(ResizeThrottleExpires)

(***************************************************************************)
(* The scroll animations: initial state and operations.                    *)
(***************************************************************************)
\* The document is still loading and animate.js is not yet evaluated; the visitor
\* has set the reduced-motion preference or not.
AnimateInit ==
    /\ ConsentAtRest
    /\ ContactAtRest
    /\ HeaderAtRest
    /\ DebounceAtRest
    /\ animatePhase = "unloaded"
    /\ animateReducedMotion \in BOOLEAN
    /\ readyState = "loading"
    /\ domListener = "none"
    /\ observerCreated = FALSE
    /\ fadeUp \in FadeUpPages

\* observer.observe(element): a target not yet observed gets its first entry queued
Observe(el) ==
    IF el.observed THEN el
    ELSE [el EXCEPT !.observed = TRUE, !.queued = IF el.intersecting THEN "in" ELSE "out"]

\* the reduced-motion listener: every fade-up element gets the class is-in
AddIsInToAll == [i \in DOMAIN fadeUp |-> [fadeUp[i] EXCEPT !.isIn = TRUE]]

\* init: every fade-up element is observed
ObserveAll == [i \in DOMAIN fadeUp |-> Observe(fadeUp[i])]

\* The module is evaluated, while the document is loading or after: with the
\* preference it adds its DOMContentLoaded listener and returns; without, it
\* creates the observer and runs init now or at DOMContentLoaded.
AnimateEvaluates ==
    /\ animatePhase = "unloaded"
    /\ animatePhase' = "evaluated"
    /\ IF animateReducedMotion
       THEN /\ domListener' = "addIsIn"
            /\ UNCHANGED <<observerCreated, fadeUp>>
       ELSE /\ observerCreated' = TRUE
            /\ IF readyState = "loading"
               THEN domListener' = "init" /\ UNCHANGED fadeUp
               ELSE fadeUp' = ObserveAll /\ UNCHANGED domListener
    /\ UNCHANGED <<animateReducedMotion, readyState>>
    /\ UNCHANGED outsideAnimate

\* The document has been parsed: DOMContentLoaded is dispatched, once, to the
\* listeners added so far.
DocumentLoads ==
    /\ readyState = "loading"
    /\ readyState' = "interactive"
    /\ fadeUp' = CASE domListener = "addIsIn" -> AddIsInToAll
                   [] domListener = "init" -> ObserveAll
                   [] OTHER -> fadeUp
    /\ domListener' = "none"
    /\ UNCHANGED <<animatePhase, animateReducedMotion, observerCreated>>
    /\ UNCHANGED outsideAnimate

\* Scrolling or layout moves element i into or out of the viewport; the observer
\* queues an entry for a target it observes.
IntersectionChanges(i) ==
    /\ fadeUp' =
          [fadeUp EXCEPT ![i] =
              [@ EXCEPT !.intersecting = ~@,
                        !.queued = IF ~fadeUp[i].observed THEN @
                                   ELSE IF ~fadeUp[i].intersecting \/ @ = "in" THEN "in"
                                   ELSE "out"]]
    /\ UNCHANGED <<animatePhase, animateReducedMotion, readyState, domListener,
                   observerCreated>>
    /\ UNCHANGED outsideAnimate

IntersectionChange == \E i \in DOMAIN fadeUp : IntersectionChanges(i)

\* handleIntersection, called with the queued entries
HandleIntersection ==
    /\ \E i \in DOMAIN fadeUp : fadeUp[i].queued # "none"
    /\ fadeUp' =
          [i \in DOMAIN fadeUp |->
              IF fadeUp[i].queued = "in"
              THEN [fadeUp[i] EXCEPT !.isIn = TRUE, !.observed = FALSE, !.queued = "none"]
              ELSE [fadeUp[i] EXCEPT !.queued = "none"]]
    /\ UNCHANGED <<animatePhase, animateReducedMotion, readyState, domListener,
                   observerCreated>>
    /\ UNCHANGED outsideAnimate

\* window.ACTAAnimate.observeNewElements(); the object exists once the module has
\* run past its reduced-motion return
ObserveNewElements ==
    /\ animatePhase = "evaluated"
    /\ ~animateReducedMotion
    /\ fadeUp' =
          [i \in DOMAIN fadeUp |->
              IF fadeUp[i].dataObserved THEN fadeUp[i]
              ELSE [Observe(fadeUp[i]) EXCEPT !.dataObserved = TRUE]]
    /\ UNCHANGED <<animatePhase, animateReducedMotion, readyState, domListener,
                   observerCreated>>
    /\ UNCHANGED outsideAnimate

AnimateNext ==
    \/ AnimateEvaluates
    \/ DocumentLoads
    \/ IntersectionChange
    \/ HandleIntersection
    \/ ObserveNewElements

AnimateSpec == AnimateInit /\ [][AnimateNext]_vars

(***************************************************************************)
(* The input debounce of the contact form: initial state and operations.   *)
(* validateField, which the timers call, writes the inline error of a     *)
(* field; the model holds the timers and not the inline errors, so a blur  *)
(* event, which calls validateField at once, is no step of it.             *)
(***************************************************************************)
\* FORM_CONFIG.debounceDelay
debounceDelay == 300

\* the fields of formFields the model holds; init adds an input listener to each
FieldNames == DOMAIN BlankForm

\* what an input event makes of the value of field f: text typed into an empty
\* field or deleted from it, the checkbox toggled
InputValue(f, value) ==
    CASE f = "fullName" -> IF value = <<>> THEN NameAnn ELSE <<>>
      [] f = "email" -> IF value = <<>> THEN EmailAnn ELSE <<>>
      [] f = "message" -> IF value = <<>> THEN MsgAudit ELSE <<>>
      [] f = "honeypot" -> IF value = <<>> THEN HoneypotUrl ELSE <<>>
      [] f = "consent" -> ~value

\* init has run at instant 0 and added the listeners; no timer is pending.
DebounceInit ==
    /\ ConsentAtRest
    /\ ContactAtRest
    /\ HeaderAtRest
    /\ AnimateAtRest
    /\ timers = {}
    /\ validationTimeout = "none"

\* a debounce that sets its timer without clearing the pending one
DebounceWithoutClear(pending, id, timer) == pending \cup {timer}

\* The function debounce returns, called: clearTimeout(validationTimeout), then
\* setTimeout(later, wait).  `pending` are the timers not yet fired, `id` the value
\* of validationTimeout, `timer` the new timer.
Debounce(pending, id, timer) == (pending \ {id}) \cup {timer}

\* an input event on field f: the listener debounce returned for f sets the timer
InputEvent(f) ==
    LET timer == [field |-> f, due |-> now + debounceDelay]
    IN  /\ fields' = [fields EXCEPT ![f] = InputValue(f, @)]
        /\ timers' = Debounce(timers, validationTimeout, timer)
        /\ validationTimeout' = timer
        /\ UNCHANGED <<now, startTime, submissionHistory, storedHistory, isSubmitting,
                       inFlight, supabaseClient, shown, errorText>>
        /\ UNCHANGED <<consentVars, headerVars, animateVars>>

\* `later`, the callback of timer t, run when its delay has passed:
\* clearTimeout(validationTimeout), then validateField of t's field
Later(t) ==
    /\ t \in timers
    /\ now >= t.due
    /\ timers' = (timers \ {t}) \ {validationTimeout}
    /\ UNCHANGED <<fields, now, startTime, submissionHistory, storedHistory, isSubmitting,
                   inFlight, supabaseClient, shown, errorText, validationTimeout>>
    /\ UNCHANGED <<consentVars, headerVars, animateVars>>

\* 100 ms pass; a timer that is due runs before the clock moves past it
TypingTick ==
    /\ now < 100 * MaxTypingSteps
    /\ \A t \in timers : t.due >= now + 100
    /\ now' = now + 100
    /\ UNCHANGED <<fields, startTime, submissionHistory, storedHistory, isSubmitting,
                   inFlight, supabaseClient, shown, errorText, timers, validationTimeout>>
    /\ UNCHANGED <<consentVars, headerVars, animateVars>>

DebounceNext ==
    \/ \E f \in FieldNames : InputEvent(f)
    \/ \E t \in timers : Later(t)
    \/ TypingTick

DebounceSpec == DebounceInit /\ [][DebounceNext]_vars

(***************************************************************************)
(* Properties of the consent manager.                                      *)
(***************************************************************************)
\* inert placeholders declared for category c
InertOf(c) ==
    Cardinality({i \in DOMAIN scripts : scripts[i].type = "text/plain" /\ scripts[i].category = c})

\* active scripts that were written for category c
ActiveOf(c) ==
    Cardinality({i \in DOMAIN scripts : scripts[i].type = "text/javascript" /\ scripts[i].body = c})

\* a step that runs processGatedScripts
Scans == InitConsent \/ AcceptAll \/ RejectNonEssential \/ SavePreferences

\* C1: a placeholder of a category other than 'necessary' becomes an active script
\* only in a step that leaves the consent record with that category equal to true
\* (the record the scan reads); so never while the record has marketing:false.
C1_ActivatedOnlyWhenAllowed ==
    [][\A i \in DOMAIN scripts :
          (/\ scripts[i].type = "text/plain"
           /\ scripts'[i].type = "text/javascript"
           /\ scripts[i].category # "necessary")
          => currentConsent'[scripts[i].category] = "true"]_vars

C1_Witness ==
    \E i \in DOMAIN scripts :
        /\ scripts[i].type = "text/javascript"
        /\ scripts[i].body = "marketing"
        /\ currentConsent.marketing = "true"

\* C2: activation is one-way: a script that is active stays as it is in every step,
\* whatever the operation, and no script is added or removed; so a scan changes
\* only placeholders that are still inert.
C2_ActivationOneWay ==
    [][/\ DOMAIN scripts' = DOMAIN scripts
       /\ \A i \in DOMAIN scripts :
             scripts[i].type = "text/javascript" => scripts'[i] = scripts[i]]_vars

C2_Witness ==
    \E i \in DOMAIN scripts :
        /\ scripts[i].type = "text/javascript"
        /\ scripts[i].body = "marketing"
        /\ currentConsent.marketing = "false"
        /\ phase = "ready"

\* C3: with one inert marketing placeholder and none active, a scanning step that
\* leaves marketing true leaves exactly one active marketing script and no inert
\* marketing placeholder; and from then on every step (any further scan included)
\* leaves that result as it is.
C3_OneActiveNoInert ==
    [][/\ (/\ InertOf("marketing") = 1
            /\ ActiveOf("marketing") = 0
            /\ currentConsent.marketing # "true"
            /\ Scans
            /\ currentConsent'.marketing = "true")
           => (ActiveOf("marketing")' = 1 /\ InertOf("marketing")' = 0)
       /\ (ActiveOf("marketing") = 1 /\ InertOf("marketing") = 0)
           => (ActiveOf("marketing")' = 1 /\ InertOf("marketing")' = 0)]_vars

C3_Witness ==
    /\ ActiveOf("marketing") = 1
    /\ InertOf("marketing") = 0
    /\ currentConsent.marketing = "true"
    /\ phase = "ready"

\* C4: on an initialized manager no inert placeholder remains for a category the
\* current record allows, after any completed operation, ACTAConsent.update included.
C4_AllowedAreActive ==
    phase = "ready" =>
        \A i \in GatedScripts : ~IsAllowed(currentConsent, scripts[i].category)

\* C5: the record's necessary field is true in every state, and isAllowed('necessary')
\* is true in every state.
C5_NecessaryAlwaysTrue ==
    /\ currentConsent.necessary = "true"
    /\ IsAllowed(currentConsent, "necessary")


\* what a fresh session loads from the stored string s: loadConsent on the defaults
FreshLoad(s) == Loaded(DefaultConsent, s, FALSE)

\* C6 as stated: when the stored value is missing, corrupt or unreadable, init's load
\* leaves the record equal to the default, and init runs to its end.
C6_LoadFallsBackToDefault ==
    [][\A readThrows \in BOOLEAN :
          (InitLoaded(readThrows) /\ (readThrows \/ stored.kind \in {"missing", "corrupt"}))
          => (currentConsent' = DefaultConsent /\ phase' = "ready")]_vars

\* C6 amended: such a load leaves the in-memory record as it was and init runs to
\* its end; before init the record changes only by ACTAConsent.update, so it is the
\* default unless update ran before init.
C6_LoadLeavesRecord ==
    [][/\ \A readThrows \in BOOLEAN :
             (InitLoaded(readThrows) /\ (readThrows \/ stored.kind \in {"missing", "corrupt"}))
             => (currentConsent' = currentConsent /\ phase' = "ready")
       /\ (phase = "loading" /\ currentConsent' # currentConsent /\ ~Update)
             => (InitConsent /\ stored.kind = "object")]_vars

C6_Witness ==
    /\ phase = "ready"
    /\ stored = Corrupt
    /\ currentConsent = DefaultConsent

\* a save whose write goes through, by any of the four callers of saveConsent
SavesRecord(consent) ==
    \/ UpdateSaving(consent, FALSE)
    \/ UserAction(consent, FALSE)

\* C7: after a save that persists, a fresh session loads a record identical to the
\* in-memory record of the save; and after saving { analytics: true } it loads
\* analytics:true and necessary:true.
C7_SaveLoadRoundTrip ==
    [][\A consent \in UpdateInputs \cup {Obj("true", a, m) : a, m \in {"true", "false"}} :
          SavesRecord(consent) =>
             /\ FreshLoad(stored') = currentConsent'
             /\ consent = Obj("absent", "true", "absent") =>
                   /\ FreshLoad(stored').analytics = "true"
                   /\ FreshLoad(stored').necessary = "true"]_vars

\* a placeholder is on the page when init looks for one
PlaceholderOnPage == \E i \in DOMAIN scripts : scripts[i].type = "text/plain"

HiddenAndScanned ==
    /\ IF prefersReducedMotion
       THEN bannerHidden' /\ modalHidden'
       ELSE bannerTimers' = bannerTimers + 1 /\ modalTimers' = modalTimers + 1
    /\ \A i \in DOMAIN scripts :
          scripts'[i].type = "text/plain" => ~IsAllowed(currentConsent', scripts[i].category)

\* the record has analytics a and marketing m
Chose(a, m) == currentConsent'.analytics = a /\ currentConsent'.marketing = m

Persisted == stored' = Stringify(currentConsent') /\ cookie' = Stringify(currentConsent')

\* C9 as stated: after each user action the two categories are as chosen, the record
\* is persisted, banner and modal are hidden or being hidden, and the scan has run.
C9_UserActionsPersist ==
    [][\A writeThrows \in BOOLEAN :
          /\ AcceptAllSaving(writeThrows) => Chose("true", "true")
          /\ RejectNonEssentialSaving(writeThrows) => Chose("false", "false")
          /\ SavePreferencesSaving(writeThrows) =>
                Chose(IF analyticsCheckbox = "checked" THEN "true" ELSE "false",
                      IF marketingCheckbox = "checked" THEN "true" ELSE "false")
          /\ (AcceptAll \/ RejectNonEssential \/ SavePreferences) =>
                (Persisted /\ HiddenAndScanned)]_vars

\* C9 amended: the same, with the record persisted unless the storage write throws;
\* every pending hide timer fires, so banner and modal end hidden.
C9_UserActions ==
    /\ [][\A writeThrows \in BOOLEAN :
            /\ AcceptAllSaving(writeThrows) => Chose("true", "true")
            /\ RejectNonEssentialSaving(writeThrows) => Chose("false", "false")
            /\ SavePreferencesSaving(writeThrows) =>
                  Chose(IF analyticsCheckbox = "checked" THEN "true" ELSE "false",
                        IF marketingCheckbox = "checked" THEN "true" ELSE "false")
            /\ (AcceptAllSaving(writeThrows) \/ RejectNonEssentialSaving(writeThrows)
                    \/ SavePreferencesSaving(writeThrows)) =>
                  ((~writeThrows => Persisted) /\ HiddenAndScanned)]_vars
    /\ (bannerTimers > 0 ~> bannerHidden)
    /\ (modalTimers > 0 ~> modalHidden)

C9_Witness ==
    /\ phase = "ready"
    /\ ~prefersReducedMotion
    /\ currentConsent = Obj("true", "false", "true")
    /\ stored = Stringify(currentConsent)
    /\ cookie = stored
    /\ marketingCheckbox = "checked"
    /\ analyticsCheckbox = "unchecked"
    /\ bannerHidden /\ modalHidden
    /\ bannerTimers = 0 /\ modalTimers = 0
    /\ ActiveOf("marketing") = 1

\* the record is merged in memory, the stored value and the cookie are untouched
MemoryOnly(consent) ==
    /\ currentConsent' = Spread(currentConsent, consent)
    /\ stored' = stored
    /\ cookie' = cookie

\* C10: when the storage write throws, the caller still runs to its end, the
\* in-memory record is the merged one, the scan that follows reads it, and the stored
\* value and the cookie are left as they were.
C10_WriteFailureKeepsMemory ==
    [][/\ \A consent \in UpdateInputs :
             UpdateSaving(consent, TRUE) => MemoryOnly(consent)
       /\ AcceptAllSaving(TRUE) =>
             (MemoryOnly(Obj("true", "true", "true")) /\ HiddenAndScanned)
       /\ RejectNonEssentialSaving(TRUE) =>
             (MemoryOnly(Obj("true", "false", "false")) /\ HiddenAndScanned)
       /\ SavePreferencesSaving(TRUE) =>
             /\ MemoryOnly(Obj("true", IF analyticsCheckbox = "checked" THEN "true" ELSE "false",
                                IF marketingCheckbox = "checked" THEN "true" ELSE "false"))
             /\ HiddenAndScanned]_vars

C10_Witness ==
    /\ phase = "ready"
    /\ stored = Missing
    /\ cookie = Missing
    /\ currentConsent.marketing = "true"
    /\ ActiveOf("marketing") = 1

\* C11: on a page that lacks the banner, the modal or the settings button, init
\* changes nothing but its own completion: no record is loaded, no placeholder is
\* activated; and afterwards no listener acts: the placeholders, the checkboxes and
\* the timers stay as they are and the record changes only by ACTAConsent.update.
\* So a record at the defaults stays there and isAllowed('analytics') is false,
\* whatever the stored record grants.
C11_MissingElementNoOp ==
    [][/\ (phase = "loading" /\ present # Elements /\ phase' # phase) =>
             /\ phase' = "disabled"
             /\ UNCHANGED <<currentConsent, stored, cookie, scripts, analyticsCheckbox,
                            marketingCheckbox, bannerHidden, modalHidden, bannerTimers,
                            modalTimers>>
       /\ phase = "disabled" =>
             /\ phase' = "disabled"
             /\ UNCHANGED <<scripts, analyticsCheckbox, marketingCheckbox, bannerTimers,
                            modalTimers>>
             /\ currentConsent' # currentConsent => Update
       /\ (phase' = "disabled" /\ currentConsent = DefaultConsent /\ ~Update) =>
             /\ currentConsent' = DefaultConsent
             /\ ~IsAllowed(currentConsent', "analytics")
             /\ \A i \in DOMAIN scripts : scripts'[i] = scripts[i]]_vars

C11_Witness ==
    /\ phase = "disabled"
    /\ "cookie-banner" \notin present
    /\ stored = Stringify(Obj("true", "true", "false"))
    /\ currentConsent = DefaultConsent
    /\ InertOf("analytics") = 1

(***************************************************************************)
(* Properties of the contact form.                                         *)
(***************************************************************************)
\* what a submit event can touch besides the clock and the client
formState ==
    <<fields, startTime, submissionHistory, storedHistory, isSubmitting, inFlight, shown,
      errorText>>

\* C12: at most one insert call is in flight in every state, and a submit event
\* that arrives while isSubmitting is true changes nothing: no error is shown, the
\* history in memory and in storage stays as it is, and no call is started.
C12_OneInsertInFlight ==
    [][/\ inFlight' <= 1
       /\ (isSubmitting /\ Submit) => UNCHANGED formState]_vars

C12_Witness ==
    /\ isSubmitting
    /\ inFlight = 1
    /\ fields = ValidForm
    /\ submissionHistory = <<2500>>
    /\ now = 3600000

\* the handler took the event up: it showed a gate's error or recorded the attempt
Processed ==
    \/ shown' = "error" /\ errorText' \in {HoneypotMessage, RateLimitMessage}
    \/ submissionHistory' = Append(Pruned(submissionHistory, now), now)

\* C13: the guard flag is set only together with the start of an insert call; when
\* the call settles, with data, with an error object or by throwing, the guard is
\* cleared and a panel is shown; so every submission that sets the guard eventually
\* clears it, and with the guard clear a submit event is taken up again.
C13_GuardCleared ==
    /\ [][/\ (~isSubmitting /\ isSubmitting') => inFlight' = inFlight + 1
          /\ \A outcome \in Outcomes :
                Settles(outcome) => (~isSubmitting' /\ shown' \in {"success", "error"})
          /\ (~isSubmitting /\ Submit) => Processed]_vars
    /\ (isSubmitting ~> ~isSubmitting)

C13_Witness ==
    /\ ~isSubmitting
    /\ inFlight = 0
    /\ shown = "error"
    /\ errorText = TimeoutMessage
    /\ fields = ValidForm
    /\ Len(submissionHistory) = 2

\* the recorded timestamps that lie within the past hour
Recent == SelectSeq(submissionHistory, LAMBDA ts : ts > now - 3600000)

\* C14: a submit event the handler takes up with an empty honeypot is recorded (it
\* passes the rate gate: its timestamp is appended to the history of the past hour)
\* exactly when fewer than 3 recorded timestamps lie within the past hour; otherwise
\* it is rejected with the rate-limit message, adds no timestamp and goes no
\* further.  The history, in memory and in storage, never holds more than 3
\* timestamps.
C14_RateGate ==
    [][/\ \A writeThrows \in BOOLEAN :
             (~isSubmitting /\ HandleSubmit(writeThrows) /\ ~Checked[fields].honeypot) =>
                IF Len(Recent) < 3
                THEN submissionHistory' = Append(Recent, now)
                ELSE /\ shown' = "error" /\ errorText' = RateLimitMessage
                     /\ UNCHANGED <<submissionHistory, storedHistory, isSubmitting, inFlight,
                                    fields, startTime>>
       /\ Len(submissionHistory') <= 3
       /\ Len(ParseHistory(storedHistory')) <= 3]_vars

C14_Witness ==
    /\ submissionHistory = <<0, 1500, 2000>>
    /\ storedHistory = StringifyHistory(submissionHistory)
    /\ now = 2500
    /\ shown = "error"
    /\ errorText = RateLimitMessage

\* the gate of passAntiSpamChecks that rejects the present form at the present
\* instant, "none" when all four let it through
RejectingGate ==
    IF Checked[fields].honeypot THEN "honeypot"
    ELSE IF Len(Recent) >= 3 THEN "rate"
    ELSE IF Checked[fields].suspicious THEN "content"
    ELSE IF now - startTime <= 2000 THEN "timing"
    ELSE "none"

GateMessage ==
    [honeypot |-> HoneypotMessage, rate |-> RateLimitMessage, content |-> SpamMessage,
     timing |-> TimingMessage]

\* a submit event taken up and rejected by a gate; the last two gates are reached
\* only when the storage write of the rate-limit step went through
Rejection(writeThrows) ==
    /\ ~isSubmitting
    /\ HandleSubmit(writeThrows)
    /\ RejectingGate # "none"
    /\ writeThrows => RejectingGate \in {"honeypot", "rate"}

\* C15 as stated: an attempt rejected by any of the four gates leaves the history in
\* memory and in storage, the start time, the field values and the guard flag as
\* they were.
C15_RejectionChangesNothing ==
    [][\A writeThrows \in BOOLEAN :
          Rejection(writeThrows) =>
             UNCHANGED <<submissionHistory, storedHistory, startTime, fields, isSubmitting>>]_vars

\* C15 amended: a rejection by the honeypot or the rate gate leaves all of these as
\* they were; a rejection by the content or the timing gate comes after the
\* rate-limit step, which has appended the attempt's timestamp to the history of the
\* past hour and persisted it; start time, field values and guard flag are unchanged
\* in all four cases, and the gate's message is shown.
C15_RejectionKeepsForm ==
    [][\A writeThrows \in BOOLEAN :
          Rejection(writeThrows) =>
             /\ UNCHANGED <<startTime, fields, isSubmitting, inFlight>>
             /\ shown' = "error" /\ errorText' = GateMessage[RejectingGate]
             /\ RejectingGate \in {"honeypot", "rate"} =>
                   UNCHANGED <<submissionHistory, storedHistory>>
             /\ RejectingGate \in {"content", "timing"} =>
                   /\ submissionHistory' = Append(Recent, now)
                   /\ storedHistory' = StringifyHistory(submissionHistory')]_vars

C15_Witness ==
    /\ shown = "error"
    /\ errorText = SpamMessage
    /\ fields = Form(NameAnn, EmailAnn, MsgViagra, TRUE, <<>>)
    /\ submissionHistory = <<2000, 3601500>>
    /\ storedHistory = StringifyHistory(submissionHistory)
    /\ now = 3601500
    /\ startTime = 0
    /\ ~isSubmitting

\* "viagra"
Token == <<"v", "i", "a", "g", "r", "a">>

\* where the token stands in a text, in any letter case
TokenAt(s) ==
    {i \in 1..(Len(s) - Len(Token) + 1) :
        \A j \in 1..Len(Token) : ToLowerChar(s[i + j - 1]) = Token[j]}

RECURSIVE WithoutToken(_)
\* the text with every occurrence of the token taken out
WithoutToken(s) ==
    IF TokenAt(s) = {} THEN s
    ELSE LET i == CHOOSE k \in TokenAt(s) : \A l \in TokenAt(s) : k <= l
         IN  WithoutToken(SubSeq(s, 1, i - 1) \o SubSeq(s, i + Len(Token), Len(s)))

\* the form without the token in its three texts
FormWithoutToken(f) ==
    [f EXCEPT !.message = WithoutToken(f.message),
              !.fullName = WithoutToken(f.fullName),
              !.email = WithoutToken(f.email)]

\* the times a visitor may have spent on the form when the score is taken
Dwell == {t - s : s, t \in Instants} \cap Nat

\* For each form: whether one of its three texts holds the token, and what
\* calculateSpamScore makes of the form with and without it.
TokenCase ==
    [f \in Forms |->
        LET g == FormWithoutToken(f)
        IN  [has |-> TokenAt(f.message) \cup TokenAt(f.fullName) \cup TokenAt(f.email) # {},
             score |-> [d \in Dwell |-> CalculateSpamScore(f, 0, d)],
             scoreWithout |-> [d \in Dwell |-> CalculateSpamScore(g, 0, d)],
             sameShape |-> MessagePoints(g) <= MessagePoints(f),
             noNewKeyword |-> KeywordsIn(AllText(g)) \subseteq KeywordsIn(AllText(f))]]

\* a submit event with the token in a field makes no outbound call, and is
\* rejected by the content gate when it reaches it
TokenStopsSubmission ==
    \A writeThrows \in BOOLEAN :
        (HandleSubmit(writeThrows) /\ TokenCase[fields].has) =>
            /\ inFlight' = inFlight
            /\ isSubmitting' = isSubmitting
            /\ (~isSubmitting /\ ~Checked[fields].honeypot /\ Len(Recent) < 3 /\ ~writeThrows) =>
                  (shown' = "error" /\ errorText' = SpamMessage)

\* C16 as stated: a form with 'viagra' in the message, name or email, in any letter
\* case, fails the content gate and makes no outbound call whatever the other
\* fields hold, and its spam score is at least 20 higher than the score of the same
\* form without the token.
C16_TokenScoresTwentyMore ==
    /\ [][TokenStopsSubmission]_vars
    /\ [](TokenCase[fields].has =>
            TokenCase[fields].score[now - startTime]
               >= TokenCase[fields].scoreWithout[now - startTime] + 20)

\* C16 amended: the gate part as stated; the score is at least 20 higher than that
\* of the form without the token whenever it is below the cap of 100 and taking the
\* token out neither raises the points of the message's shape nor brings another
\* keyword into being.
C16_TokenGateAndScore ==
    /\ [][TokenStopsSubmission]_vars
    /\ []((/\ TokenCase[fields].has
            /\ TokenCase[fields].score[now - startTime] < 100
            /\ TokenCase[fields].sameShape
            /\ TokenCase[fields].noNewKeyword)
           => TokenCase[fields].score[now - startTime]
                 >= TokenCase[fields].scoreWithout[now - startTime] + 20)

C16_Witness ==
    /\ fields = Form(NameViagra, EmailNoDot, MsgAudit, FALSE, <<>>)
    /\ shown = "error"
    /\ errorText = SpamMessage
    /\ inFlight = 0
    /\ now - startTime = 2500
    /\ TokenCase[fields].score[2500] = 45
    /\ TokenCase[fields].scoreWithout[2500] = 25

\* C17: a submit event less than 2000 ms after the form start time makes no
\* outbound call, and with an empty honeypot, a history under the limit, clean
\* content and valid fields it is rejected with the timing message; the start time
\* is the instant of initialization until a successful submission resets the form,
\* and then the instant of that reset.
C17_DwellTime ==
    /\ startTime = now
    /\ [][/\ \A writeThrows \in BOOLEAN :
                (~isSubmitting /\ HandleSubmit(writeThrows) /\ now - startTime < 2000) =>
                   /\ inFlight' = inFlight
                   /\ UNCHANGED <<isSubmitting, fields, startTime>>
                   /\ (/\ ~Checked[fields].honeypot
                       /\ Len(Recent) < 3
                       /\ ~Checked[fields].suspicious
                       /\ Checked[fields].valid
                       /\ ~writeThrows) => (shown' = "error" /\ errorText' = TimingMessage)
          /\ startTime' # startTime =>
                (startTime' = now /\ fields' = BlankForm /\ shown' = "success")]_vars

C17_Witness ==
    /\ startTime = 3600000
    /\ now = 3601500
    /\ fields = ValidForm
    /\ shown = "error"
    /\ errorText = TimingMessage
    /\ submissionHistory = <<3600000, 3601500>>
    /\ inFlight = 0

\* the four validators as the form's fields have to satisfy them
FourValidators ==
    [f \in Forms |->
        /\ Trim(f.fullName) # <<>>
        /\ EmailRegexTest(Trim(f.email))
        /\ Len(Trim(f.message)) >= 20
        /\ f.consent]

\* C18: an insert call starts only in a submit event whose form passed the four
\* gates and satisfies the four validators, and it is one call, made with the guard
\* set; a submit event whose form fails a validator sets no guard, starts no call
\* and leaves the form as it is; a call that settles is not made again.
C18_InsertOnlyIfValid ==
    [][/\ inFlight' > inFlight =>
             /\ inFlight' = inFlight + 1
             /\ ~isSubmitting /\ isSubmitting'
             /\ HandleSubmit(FALSE)
             /\ RejectingGate = "none"
             /\ FourValidators[fields]
       /\ \A writeThrows \in BOOLEAN :
             (~isSubmitting /\ HandleSubmit(writeThrows) /\ ~FourValidators[fields]) =>
                UNCHANGED <<isSubmitting, inFlight, fields, startTime>>
       /\ \A outcome \in Outcomes : Settles(outcome) => inFlight' = inFlight - 1]_vars

C18_Witness ==
    /\ inFlight = 1
    /\ isSubmitting
    /\ fields = ValidForm
    /\ now = 2500
    /\ startTime = 0
    /\ submissionHistory = <<2500>>
    /\ storedHistory = StringifyHistory(submissionHistory)

\* C19 as stated: an insert that fails is classified by its message: a backend
\* error object ends as a success; a 'Failed to fetch' or 'NetworkError' message
\* shows the network message, 'Request timeout' the timeout message, 'CORS' the
\* connection message, 'TypeError' or 'ReferenceError' the compatibility message,
\* each in the error state, and the four messages differ from one another and
\* from the default text.
C19_FailureClassified ==
    [][\A outcome \in Outcomes :
          (Settles(outcome) /\ outcome.kind # "data") =>
             LET message == Thrown(outcome)
                 Shows(text) == shown' = "error" /\ errorText' = text
             IN  /\ "Database error" \in message => shown' = "success"
                 /\ "Database error" \notin message => shown' = "error"
                 /\ message \cap {"Failed to fetch", "NetworkError"} # {} => Shows(NetworkMessage)
                 /\ "Request timeout" \in message => Shows(TimeoutMessage)
                 /\ "CORS" \in message => Shows(CorsMessage)
                 /\ message \cap {"TypeError", "ReferenceError"} # {} => Shows(CompatMessage)
                 /\ Cardinality({NetworkMessage, TimeoutMessage, CorsMessage, CompatMessage,
                                 DefaultErrorText}) = 5]_vars

\* the data-state the scroll offset calls for
StateMatchesOffset == dataState = (IF scrollY > 48 THEN "scrolled" ELSE "loaded")

\* C20: the header state follows the scroll offset through the 16 ms throttle: once
\* init has run and the throttle's window has passed with no further scroll event,
\* nothing is left that would still change data-state, so in every such state it
\* is 'scrolled' when the offset is above 48 px and 'loaded' when it is 48 px or
\* less.
C20_HeaderFollowsScroll ==
    (headerPhase = "ready" /\ ~scrollInThrottle) => StateMatchesOffset

\* C21: with the reduced-motion preference no observer is created and every
\* fade-up element gets the class is-in, whether the module runs before or after
\* the document has loaded: once both have happened nothing is left that would
\* still add the class, so in every such state every element carries it.  Without
\* the preference an element gets is-in from an entry that intersects, is
\* unobserved in the same step, and no element ever loses the class.
C21_FadeUpShown ==
    /\ []((animatePhase = "evaluated" /\ animateReducedMotion) =>
             /\ ~observerCreated
             /\ readyState # "loading" => \A i \in DOMAIN fadeUp : fadeUp[i].isIn)
    /\ [][\A i \in DOMAIN fadeUp :
             /\ fadeUp[i].isIn => fadeUp'[i].isIn
             /\ (~animateReducedMotion /\ ~fadeUp[i].isIn /\ fadeUp'[i].isIn) =>
                   (HandleIntersection /\ fadeUp[i].queued = "in" /\ ~fadeUp'[i].observed)]_vars

\* the decoy field holds something other than blanks
HoneypotHasText == \E i \in 1..Len(fields.honeypot) : fields.honeypot[i] \notin Whitespace

\* the first gate, in the order honeypot, rate limit, content, dwell time, that the
\* present form fails at the present instant
FirstFailingGate ==
    IF HoneypotHasText THEN "honeypot"
    ELSE IF Len(Recent) >= 3 THEN "rate"
    ELSE IF TokenCase[fields].has \/ Checked[fields].suspicious THEN "content"
    ELSE IF now - startTime <= 2000 THEN "timing"
    ELSE "none"

\* C22: a submit event taken up is answered by the first gate that fails in the
\* order honeypot, rate limit, content, dwell time, whatever the later gates would
\* say, before validation and before any insert: its message alone is shown, the
\* guard is not set and no call starts; a honeypot rejection leaves the history in
\* memory and in storage as it was, and the rate gate's record is made only when
\* the honeypot gate was passed.
C22_GateOrder ==
    [][\A writeThrows \in BOOLEAN :
          (~isSubmitting /\ HandleSubmit(writeThrows)) =>
             /\ (FirstFailingGate # "none"
                   /\ (writeThrows => FirstFailingGate \in {"honeypot", "rate"})) =>
                   /\ shown' = "error" /\ errorText' = GateMessage[FirstFailingGate]
                   /\ UNCHANGED <<isSubmitting, inFlight, fields, startTime>>
             /\ FirstFailingGate = "honeypot" =>
                   /\ errorText' = HoneypotMessage
                   /\ UNCHANGED <<submissionHistory, storedHistory>>
             /\ submissionHistory' # submissionHistory =>
                   FirstFailingGate \notin {"honeypot", "rate"}]_vars

C22_Witness ==
    /\ fields = Form(NameAnn, EmailAnn, MsgAudit, TRUE, HoneypotUrl)
    /\ submissionHistory = <<0, 1500, 2000>>
    /\ storedHistory = StringifyHistory(submissionHistory)
    /\ now = 2000
    /\ startTime = 0
    /\ shown = "error"
    /\ errorText = HoneypotMessage

\* C26: an attempt that passed the honeypot and the rate gate and is then rejected
\* by the content gate, by the timing gate or by a validator has been recorded: the
\* history in memory is the history of the past hour with its timestamp appended,
\* the stored history reads back as the same, and no insert call starts; with three
\* timestamps in the past hour the next attempt is rejected by the rate gate.
C26_AttemptsCounted ==
    [][\A writeThrows \in BOOLEAN :
          (~isSubmitting /\ HandleSubmit(writeThrows) /\ ~HoneypotHasText) =>
             /\ (/\ ~writeThrows
                 /\ \/ FirstFailingGate \in {"content", "timing"}
                    \/ FirstFailingGate = "none" /\ ~FourValidators[fields]) =>
                   /\ submissionHistory' = Append(Recent, now)
                   /\ ParseHistory(storedHistory') = submissionHistory'
                   /\ UNCHANGED <<inFlight, isSubmitting>>
                   /\ shown' # "success" \/ shown = "success"
             /\ Len(Recent) >= 3 =>
                   /\ shown' = "error" /\ errorText' = RateLimitMessage
                   /\ UNCHANGED <<inFlight, isSubmitting>>]_vars

\* No client was ever there and no submission ever succeeded, yet three rejected
\* attempts have used up the hour's allowance and the fourth met the rate gate.
C26_Witness ==
    /\ ~supabaseClient
    /\ inFlight = 0
    /\ startTime = 0
    /\ fields = Form(NameAnn, EmailAnn, MsgAudit, FALSE, <<>>)
    /\ submissionHistory = <<2500, 3600000, 3601500>>
    /\ ParseHistory(storedHistory) = submissionHistory
    /\ now = 3601500
    /\ shown = "error"
    /\ errorText = RateLimitMessage

\* C27: without a backend client a submit event whose form passes the four gates
\* and the four validators starts no insert call and ends with the success panel
\* shown, the fields cleared, the start time set to the present instant and the
\* guard clear; while there is no client no call is in flight.
C27_NoClientFallback ==
    /\ [](~supabaseClient => inFlight = 0)
    /\ [][(/\ ~isSubmitting
           /\ HandleSubmit(FALSE)
           /\ ~supabaseClient
           /\ FirstFailingGate = "none"
           /\ FourValidators[fields]) =>
              /\ shown' = "success"
              /\ fields' = BlankForm
              /\ startTime' = now
              /\ ~isSubmitting'
              /\ inFlight' = inFlight]_vars

C27_Witness ==
    /\ ~supabaseClient
    /\ shown = "success"
    /\ fields = BlankForm
    /\ startTime = 2500
    /\ now = 2500
    /\ submissionHistory = <<2500>>
    /\ ~isSubmitting
    /\ inFlight = 0

\* C24: a storage write that throws in the rate-limit step is absorbed: the attempt
\* is recorded in memory and goes on through the content gate, the timing gate,
\* validation and the insert call as it would have with a working storage.
C24_StorageFailureAbsorbed ==
    [][(/\ ~isSubmitting
        /\ HandleSubmit(TRUE)
        /\ ~HoneypotHasText
        /\ Len(Recent) < 3) =>
           /\ submissionHistory' = Append(Recent, now)
           /\ FirstFailingGate \in {"content", "timing"} =>
                 (shown' = "error" /\ errorText' = GateMessage[FirstFailingGate])
           /\ (FirstFailingGate = "none" /\ FourValidators[fields] /\ supabaseClient) =>
                 (isSubmitting' /\ inFlight' = inFlight + 1)
           /\ (FirstFailingGate = "none" /\ FourValidators[fields] /\ ~supabaseClient) =>
                 (shown' = "success" /\ fields' = BlankForm)]_vars

\* some character four times in a row
HasRunOfFour(s) == \E i \in 1..(Len(s) - 3) : \A j \in (i + 1)..(i + 3) : s[j] = s[i]

\* The points the score is said to add for a form, the fill time apart: 20 per
\* denylist phrase found, 15 for more than 0.3 uppercase letters in the message as
\* entered, 10 for more than 0.2 digits, 10 for more than 0.1 special characters, 10
\* for a message under 30 characters, 15 for one over 1000, 20 for a run of four.
StatedPoints ==
    [f \in Forms |->
        LET length == Len(f.message)
        IN  20 * Cardinality(KeywordsIn(AllText(f)))
            + (IF 10 * Count(f.message, {UpperCase[i] : i \in DOMAIN UpperCase}) > 3 * length
               THEN 15 ELSE 0)
            + (IF 10 * Count(f.message, Digits) > 2 * length THEN 10 ELSE 0)
            + (IF 10 * Count(f.message, SpecialChars) > length THEN 10 ELSE 0)
            + (IF length < 30 THEN 10 ELSE 0)
            + (IF length > 1000 THEN 15 ELSE 0)
            + (IF HasRunOfFour(ToLowerCase(f.message)) THEN 20 ELSE 0)]

\* C23: for every form and every fill time the spam score is the stated points
\* plus 25 for a fill time under 3 s and 10 for one over 5 min, capped at 100, and
\* lies within 0..100.
C23_ScoreFormula ==
    LET timeSpent == now - startTime
        points == StatedPoints[fields]
                     + (IF timeSpent < 3000 THEN 25 ELSE 0)
                     + (IF timeSpent > 300000 THEN 10 ELSE 0)
    IN  /\ TokenCase[fields].score[timeSpent] = (IF points < 100 THEN points ELSE 100)
        /\ TokenCase[fields].score[timeSpent] \in 0..100

\* C28: without reduced motion the class hidden is added to the banner and to the
\* modal by a timer only, which the hide starts while the element stays as it is;
\* no operation cancels a pending timer, a show least of all: a timer leaves the
\* pending ones only by firing, and when it fires the element is hidden, whatever
\* was invoked on it in between.
C28_HideTimerNeverCancelled ==
    [][/\ (~prefersReducedMotion /\ ~bannerHidden /\ bannerHidden') => BannerTimerFires
       /\ (~prefersReducedMotion /\ ~modalHidden /\ modalHidden') => ModalTimerFires
       /\ (~prefersReducedMotion /\ CloseModal) =>
             (modalTimers' = modalTimers + 1 /\ ~modalHidden')
       /\ OpenModal => modalTimers' = modalTimers
       /\ ApiShowBanner => bannerTimers' = bannerTimers
       /\ bannerTimers' < bannerTimers =>
             (BannerTimerFires /\ bannerTimers' = bannerTimers - 1 /\ bannerHidden')
       /\ modalTimers' < modalTimers =>
             (ModalTimerFires /\ modalTimers' = modalTimers - 1 /\ modalHidden')]_vars

\* The modal was closed and is on screen with its hide timer pending: a showModal
\* now changes nothing, and the timer is still to fire.
C28_Witness ==
    /\ phase = "ready"
    /\ ~prefersReducedMotion
    /\ ~modalHidden
    /\ modalTimers = 1
    /\ ~bannerHidden
    /\ bannerTimers = 0

\* C25: the input listeners of all fields share one pending timer: an input event
\* on a field leaves exactly one timer pending, its own, due 300 ms later, whatever
\* was pending for whichever field; the timer that runs a validation is the one the
\* last input event set, it runs at its due time, for that event's field, and
\* leaves none pending.
C25_SharedDebounce ==
    [][/\ \A f \in FieldNames :
             InputEvent(f) =>
                /\ timers' = {[field |-> f, due |-> now + 300]}
                /\ validationTimeout' \in timers'
       /\ \A t \in timers :
             Later(t) =>
                /\ t = validationTimeout
                /\ now = t.due
                /\ timers' = {}
       /\ Cardinality(timers') <= 1]_vars

\* A burst: the name was typed at most 200 ms before the email; the one pending
\* timer is the email's.
C25_Witness ==
    /\ now = 200
    /\ fields.fullName = NameAnn
    /\ fields.email = EmailAnn
    /\ timers = {[field |-> "email", due |-> 500]}
    /\ validationTimeout = [field |-> "email", due |-> 500]

====
